---- MODULE Spec2Model ----
(***************************************************************************)
(* xgotext (src/cli/xgotext/main.go): extraction of gettext call sites     *)
(* from Go sources into one .po catalog per domain.                        *)
(*                                                                         *)
(* Text is modelled in two layers.  A source token, a domain name and a    *)
(* file path are sequences of one-character strings, so that               *)
(* strconv.Unquote and path.Join are computed character by character.  A   *)
(* catalog file is a sequence of pieces [t, v]: t is the literal text the  *)
(* writer puts in front and v the text it appends to it; a line feed is a  *)
(* piece of its own.  One piece stands for a run of bytes, so an offset    *)
(* of a stream counts pieces.                                              *)
(***************************************************************************)
EXTENDS Integers, Sequences, FiniteSets, TLC

(***************************************************************************)
(* Bounds of the model.                                                    *)
(***************************************************************************)
\* Call expressions visited in one traversal of the source file.
MaxCalls == 3

\* F applied to the value of x, computed once.
Apply(F(_), x) == CHOOSE r \in {F(v) : v \in {x}} : TRUE

(***************************************************************************)
(* Characters and strings.                                                 *)
(***************************************************************************)
DQ == "\""
SQ == "'"
BS == "\\"
LF == "\n"

RECURSIVE StrFrom(_, _)
StrFrom(cs, i) == IF i > Len(cs) THEN "" ELSE cs[i] \o StrFrom(cs, i + 1)

\* The string spelled by a sequence of characters.
Str(cs) == Apply(LAMBDA v : StrFrom(v, 1), cs)

Digits == <<"0", "1", "2", "3", "4", "5", "6", "7", "8", "9">>

RECURSIVE Itoa(_)
\* fmt.Sprintf("%d", n) for n >= 0.
Itoa(n) ==
    IF n < 10 THEN Digits[n + 1] ELSE Itoa(n \div 10) \o Digits[(n % 10) + 1]

Contains(cs, c) == \E i \in 1..Len(cs) : cs[i] = c

(***************************************************************************)
(* strconv.Unquote, for the interpreted and rune literals whose escapes    *)
(* are \\, \", \', \n and \t (the numeric escapes and raw literals are not *)
(* in the alphabet of the tokens drawn below).  The result is              *)
(* [ok, s]: ok = FALSE is ErrSyntax.                                       *)
(***************************************************************************)
ErrSyntax == [ok |-> FALSE, s |-> <<>>]

BadChar == [ok |-> FALSE, c |-> "", width |-> 0]

\* strconv.UnquoteChar at position i of s: [ok, c, width], width the
\* characters it consumed.
UnquoteChar(s, i, quote) ==
    IF s[i] = quote /\ quote \in {SQ, DQ} THEN BadChar
    ELSE IF s[i] # BS THEN [ok |-> TRUE, c |-> s[i], width |-> 1]
    ELSE IF i >= Len(s) THEN BadChar
    ELSE CASE s[i + 1] = "n" -> [ok |-> TRUE, c |-> LF, width |-> 2]
           [] s[i + 1] = "t" -> [ok |-> TRUE, c |-> "\t", width |-> 2]
           [] s[i + 1] = BS -> [ok |-> TRUE, c |-> BS, width |-> 2]
           [] s[i + 1] \in {SQ, DQ} ->
                 IF s[i + 1] # quote THEN BadChar
                 ELSE [ok |-> TRUE, c |-> quote, width |-> 2]
           [] OTHER -> BadChar

RECURSIVE UnquoteFrom(_, _, _, _)
\* The decoding loop of Unquote over s, the text between the quotes.
UnquoteFrom(s, i, quote, acc) ==
    IF i > Len(s) THEN [ok |-> TRUE, s |-> acc]
    ELSE Apply(LAMBDA r :
                   IF ~r.ok THEN ErrSyntax
                   ELSE IF quote = SQ /\ i + r.width <= Len(s) THEN ErrSyntax
                   ELSE UnquoteFrom(s, i + r.width, quote, Append(acc, r.c)),
               UnquoteChar(s, i, quote))

Unquote(tok) ==
    IF Len(tok) < 2 THEN ErrSyntax
    ELSE IF tok[1] # tok[Len(tok)] THEN ErrSyntax
    ELSE IF tok[1] \notin {DQ, SQ} THEN ErrSyntax
    ELSE Apply(LAMBDA s :
                   IF Contains(s, LF) THEN ErrSyntax
                   ELSE IF ~Contains(s, BS) /\ ~Contains(s, tok[1])
                           /\ (tok[1] = DQ \/ Len(s) = 1)
                   THEN [ok |-> TRUE, s |-> s]
                   ELSE IF s = <<>> THEN ErrSyntax
                   ELSE UnquoteFrom(s, 1, tok[1], <<>>),
               SubSeq(tok, 2, Len(tok) - 1))

(***************************************************************************)
(* path.Join and path.Clean.                                               *)
(***************************************************************************)
RECURSIVE SplitFrom(_, _, _, _)
SplitFrom(cs, i, cur, acc) ==
    IF i > Len(cs) THEN Append(acc, cur)
    ELSE IF cs[i] = "/" THEN SplitFrom(cs, i + 1, <<>>, Append(acc, cur))
    ELSE SplitFrom(cs, i + 1, Append(cur, cs[i]), acc)

\* The elements of a path between its slashes (empty elements included).
SplitSlash(cs) == SplitFrom(cs, 1, <<>>, <<>>)

DotDot == <<".", ".">>

RECURSIVE CleanFrom(_, _, _, _)
\* path.Clean's pass over the elements: "" and "." are dropped, ".." backs
\* up over the element before it where there is one.
CleanFrom(es, i, rooted, out0) ==
    IF i > Len(es) THEN out0
    ELSE Apply(LAMBDA out :
                   IF es[i] = <<>> \/ es[i] = <<".">>
                   THEN CleanFrom(es, i + 1, rooted, out)
                   ELSE IF es[i] = DotDot
                   THEN IF out # <<>> /\ out[Len(out)] # DotDot
                        THEN CleanFrom(es, i + 1, rooted,
                                       SubSeq(out, 1, Len(out) - 1))
                        ELSE IF rooted THEN CleanFrom(es, i + 1, rooted, out)
                        ELSE CleanFrom(es, i + 1, rooted, Append(out, es[i]))
                   ELSE CleanFrom(es, i + 1, rooted, Append(out, es[i])),
               out0)

RECURSIVE JoinFrom(_, _)
JoinFrom(es, i) ==
    IF i > Len(es) THEN <<>>
    ELSE IF i = Len(es) THEN es[i]
    ELSE es[i] \o <<"/">> \o JoinFrom(es, i + 1)

\* The elements joined by slashes.
JoinSlash(es) == Apply(LAMBDA v : JoinFrom(v, 1), es)

Clean(p) ==
    IF p = <<>> THEN <<".">>
    ELSE Apply(LAMBDA body :
                   IF p[1] = "/" THEN <<"/">> \o body
                   ELSE IF body = <<>> THEN <<".">> ELSE body,
               JoinSlash(Apply(LAMBDA es : CleanFrom(es, 1, p[1] = "/", <<>>),
                               SplitSlash(p))))

\* path.Join(a, b): the non-empty ones joined by a slash, then cleaned.
Join(a, b) ==
    IF a = <<>> /\ b = <<>> THEN <<>>
    ELSE IF a = <<>> THEN Clean(b)
    ELSE IF b = <<>> THEN Clean(a)
    ELSE Clean(a \o <<"/">> \o b)

\* The directory part of a cleaned path: what precedes its last element.
Dir(p) ==
    Apply(LAMBDA es : JoinSlash(SubSeq(es, 1, Len(es) - 1)), SplitSlash(p))

(***************************************************************************)
(* The output directory and the catalog files.                             *)
(***************************************************************************)
\* outputDir: the empty string unless a second argument is given.
outputDir == <<>>

currentDomain == <<"d", "e", "f", "a", "u", "l", "t">>

DotPo == <<".", "p", "o">>

\* The directories, relative to the output directory, that exist when the
\* run starts: the output directory itself and no subdirectory of it.
ExistingDirs == {<<>>}

\* How the process stands: running, ended by log.Fatal (os.Exit(1)) at the
\* failed strconv.Unquote or the failed os.OpenFile, or ended by a run-time
\* panic.
Running == "running"
FatalUnquote == "fatal: unquote"
FatalOpen == "fatal: open"
Panic == "panic"

Piece(t, v) == [t |-> t, v |-> v]
NL == Piece(LF, "")
TAB == Piece("\t", "")
\* A byte no write has set: the gap a write beyond the end of a file leaves.
NUL == Piece("NUL", "")

\* The raw string h of writePoHeader: eight lines (one piece, the line feeds
\* between them in it), the line feed that ends the eighth, an empty line,
\* and the tab that stands before the closing quote of the literal.
HeaderLines ==
    "msgid \"\"\nmsgstr \"\"\n"
    \o "\"Plural-Forms: nplurals=2; plural=(n != 1);\\n\"\n"
    \o "\"MIME-Version: 1.0\\n\"\n"
    \o "\"Content-Type: text/plain; charset=UTF-8\\n\"\n"
    \o "\"Content-Transfer-Encoding: 8bit\\n\"\n"
    \o "\"Language: \\n\"\n"
    \o "\"X-Generator: xgotext\\n\""

Header == <<Piece(HeaderLines, ""), NL, NL, TAB>>

\* A file's content after data is written at offset off (pieces before it).
WriteAt(old, off, data) ==
    [i \in 1..(IF Len(old) > off + Len(data) THEN Len(old)
               ELSE off + Len(data)) |->
        IF i > off /\ i <= off + Len(data) THEN data[i - off]
        ELSE IF i <= Len(old) THEN old[i]
        ELSE NUL]

\* f.Write(data) on the stream registered for a domain: the data lands at
\* the stream's own offset, which moves past it.  The result of Write is
\* not looked at.
FileWrite(m0, dom, data) ==
    Apply(LAMBDA m :
              [m EXCEPT
                 !.fs[m.domainFiles[dom].path] =
                     WriteAt(m.fs[m.domainFiles[dom].path],
                             m.domainFiles[dom].off, data),
                 !.domainFiles[dom].off = m.domainFiles[dom].off + Len(data)],
          m0)

\* os.OpenFile(filePath, O_TRUNC|O_CREATE|O_WRONLY, 0644) succeeds when the
\* directory of the path exists.
CanOpen(filePath) == Dir(filePath) \in ExistingDirs

\* The file created, or truncated, and its stream registered at offset 0.
Opened(m, dom, filePath) ==
    [m EXCEPT
       !.fs = [p \in DOMAIN m.fs \cup {filePath} |->
                  IF p = filePath THEN <<>> ELSE m.fs[p]],
       !.domainFiles =
           [d \in DOMAIN m.domainFiles \cup {dom} |->
               IF d = dom THEN [path |-> filePath, off |-> 0]
               ELSE m.domainFiles[d]]]

writePoHeader(m, dom) == FileWrite(m, dom, Header)

\* A getDomainFile that writes the header at every resolution of a domain,
\* not at the first alone.
getDomainFileHeaderEachTime(m0, domain) ==
    Apply(LAMBDA m :
              IF m.exit # Running THEN m
              ELSE IF Str(domain) \in DOMAIN m.domainFiles
              THEN writePoHeader(m, Str(domain))
              ELSE Apply(LAMBDA filePath :
                             IF ~CanOpen(filePath)
                             THEN [m EXCEPT !.exit = FatalOpen]
                             ELSE writePoHeader(
                                      Opened(m, Str(domain), Str(filePath)),
                                      Str(domain)),
                         Join(outputDir, domain \o DotPo)),
          m0)

\* getDomainFile(domain): the process after the call; the stream it returns
\* is m.domainFiles[Str(domain)].
getDomainFile(m0, domain) ==
    Apply(LAMBDA m :
              IF m.exit # Running THEN m
              ELSE IF Str(domain) \in DOMAIN m.domainFiles THEN m
              ELSE Apply(LAMBDA filePath :
                             IF ~CanOpen(filePath)
                             THEN [m EXCEPT !.exit = FatalOpen]
                             ELSE writePoHeader(
                                      Opened(m, Str(domain), Str(filePath)),
                                      Str(domain)),
                         Join(outputDir, domain \o DotPo)),
          m0)

\* The record of one call of a writer function, kept in m.log.
LogEntry(fn, dom, a, b) == [fn |-> fn, dom |-> dom, a |-> a, b |-> b]

\* A writer function entered: its call is logged, then its stream resolved.
Enter(m0, e, domain) ==
    Apply(LAMBDA m :
              IF m.exit # Running THEN m
              ELSE getDomainFile([m EXCEPT !.log = Append(m.log, e)], domain),
          m0)

\* The writes a writer function makes, one after the other, once it has
\* its stream.
Writes(g0, dom, datas) ==
    Apply(LAMBDA g :
              IF g.exit # Running THEN g
              ELSE FileWrite(g, dom, datas),
          g0)

write(m, dom, msgid) ==
    Writes(Enter(m, LogEntry("write", Str(dom), Str(msgid), ""), dom),
           Str(dom),
           <<NL, Piece("msgid ", Str(msgid))>>
           \o <<NL, Piece("msgstr \"\"", "")>>
           \o <<NL>>)

writePlural(m, dom, msgid, msgidPlural) ==
    Writes(Enter(m, LogEntry("writePlural", Str(dom), Str(msgid),
                             Str(msgidPlural)), dom),
           Str(dom),
           <<NL, Piece("msgid ", Str(msgid))>>
           \o <<NL, Piece("msgid_plural ", Str(msgidPlural))>>
           \o <<NL, Piece("msgstr[0] \"\"", "")>>
           \o <<NL, Piece("msgstr[1] \"\"", "")>>
           \o <<NL>>)

writeContext(m, dom, ctx) ==
    Writes(Enter(m, LogEntry("writeContext", Str(dom), Str(ctx), ""), dom),
           Str(dom),
           <<NL, Piece("msgctxt ", Str(ctx))>>)

writeComments(m, dom, file, call) ==
    Writes(Enter(m, LogEntry("writeComments", Str(dom), file, call), dom),
           Str(dom),
           <<NL, Piece("#: ", file)>> \o <<NL, Piece("#. ", call)>>)

(***************************************************************************)
(* The syntax tree, as far as the call-site matcher reads it.              *)
(*                                                                         *)
(* An argument is [node, Kind, Value, Obj]: a *ast.BasicLit with its Kind  *)
(* and its Value (the token, quotes included), a *ast.Ident with the Kind  *)
(* of its Obj ("nil" when the parser resolved no declaration), or another  *)
(* expression.  A callee is [node, X, Name, Sel]: a *ast.SelectorExpr with *)
(* the node type of its X, the Name of X when X is a *ast.Ident, and Sel;  *)
(* or another expression.  A call carries Pos, what                        *)
(* fset.Position(call.Lparen) resolves to.                                 *)
(***************************************************************************)
BasicLit(kind, tok) ==
    [node |-> "BasicLit", Kind |-> kind, Value |-> tok, Obj |-> ""]
Ident(obj) == [node |-> "Ident", Kind |-> "", Value |-> <<>>, Obj |-> obj]
OtherExpr == [node |-> "CallExpr", Kind |-> "", Value |-> <<>>, Obj |-> ""]

Selector(x, sel) ==
    [node |-> "SelectorExpr", X |-> x,
     Name |-> IF x = "Ident" THEN "gotext" ELSE "", Sel |-> sel]
PlainCallee(name) == [node |-> "Ident", X |-> "", Name |-> name, Sel |-> ""]

CallExpr(fun, args) ==
    [Fun |-> fun, Args |-> args, Pos |-> [Filename |-> "", Line |-> 0]]

IsString(arg) == arg.node = "BasicLit" /\ arg.Kind = "STRING"

\* fmt.Sprintf("%s:%d", fset.Position(call.Lparen).Filename, ...Line)
PosText(call) == call.Pos.Filename \o ":" \o Itoa(call.Pos.Line)

\* fmt.Sprintf("%s.%s", call.Fun.(*ast.SelectorExpr).X.(*ast.Ident).Name,
\*             call.Fun.(*ast.SelectorExpr).Sel.String())
CallLabel(call) == call.Fun.Name \o "." \o call.Fun.Sel

\* The arguments of writeComments are evaluated before it is called: the
\* type assertion X.(*ast.Ident) panics when X is not an identifier.
Comments(m, dom, call) ==
    IF call.Fun.X # "Ident" THEN [m EXCEPT !.exit = Panic]
    ELSE writeComments(m, dom, PosText(call), CallLabel(call))

parseGet(m, call) ==
    IF Len(call.Args) > 0 /\ IsString(call.Args[1])
    THEN write(Comments(m, currentDomain, call), currentDomain,
               call.Args[1].Value)
    ELSE m

\* The switch of parseGetN over the type of the third argument.
CountArg(x) ==
    CASE x.node = "BasicLit" -> IF x.Kind # "INT" THEN "return" ELSE "go on"
      [] x.node = "Ident" ->
            IF x.Obj = "nil" THEN Panic
            ELSE IF x.Obj # "Var" /\ x.Obj # "Con" THEN "return"
            ELSE "go on"
      [] OTHER -> "return"

parseGetN(m, call) ==
    IF Len(call.Args) < 3 THEN m
    ELSE IF call.Args[1].node = "BasicLit" /\ call.Args[2].node = "BasicLit"
            /\ call.Args[1].Kind = "STRING" /\ call.Args[2].Kind = "STRING"
    THEN CASE CountArg(call.Args[3]) = "return" -> m
           [] CountArg(call.Args[3]) = Panic -> [m EXCEPT !.exit = Panic]
           [] OTHER -> writePlural(Comments(m, currentDomain, call),
                                   currentDomain, call.Args[1].Value,
                                   call.Args[2].Value)
    ELSE m

\* A parseGetD that does not look at the type of its second argument.
parseGetDAnyMsgid(m, call) ==
    IF Len(call.Args) > 1 /\ IsString(call.Args[1])
    THEN Apply(LAMBDA dom :
                   IF ~dom.ok THEN [m EXCEPT !.exit = FatalUnquote]
                   ELSE write(Comments(m, dom.s, call), dom.s,
                              call.Args[2].Value),
               Unquote(call.Args[1].Value))
    ELSE m

parseGetD(m, call) ==
    IF Len(call.Args) > 1 /\ IsString(call.Args[1]) /\ IsString(call.Args[2])
    THEN Apply(LAMBDA dom :
                   IF ~dom.ok THEN [m EXCEPT !.exit = FatalUnquote]
                   ELSE write(Comments(m, dom.s, call), dom.s,
                              call.Args[2].Value),
               Unquote(call.Args[1].Value))
    ELSE m

parseGetND(m, call) ==
    IF Len(call.Args) > 2 /\ IsString(call.Args[1]) /\ IsString(call.Args[2])
       /\ IsString(call.Args[3])
    THEN Apply(LAMBDA dom :
                   IF ~dom.ok THEN [m EXCEPT !.exit = FatalUnquote]
                   ELSE writePlural(Comments(m, dom.s, call), dom.s,
                                    call.Args[2].Value, call.Args[3].Value),
               Unquote(call.Args[1].Value))
    ELSE m

parseGetC(m, call) ==
    IF Len(call.Args) > 1 /\ IsString(call.Args[1]) /\ IsString(call.Args[2])
    THEN write(writeContext(Comments(m, currentDomain, call), currentDomain,
                            call.Args[2].Value),
               currentDomain, call.Args[1].Value)
    ELSE m

parseGetNC(m, call) ==
    IF Len(call.Args) > 3 /\ IsString(call.Args[1]) /\ IsString(call.Args[2])
       /\ IsString(call.Args[4])
    THEN writePlural(writeContext(Comments(m, currentDomain, call),
                                  currentDomain, call.Args[4].Value),
                     currentDomain, call.Args[1].Value, call.Args[2].Value)
    ELSE m

\* A parseGetDC that writes the context to the catalog of the current
\* domain.
parseGetDCContextToCurrent(m, call) ==
    IF Len(call.Args) > 2 /\ IsString(call.Args[1]) /\ IsString(call.Args[2])
       /\ IsString(call.Args[3])
    THEN Apply(LAMBDA dom :
                   IF ~dom.ok THEN [m EXCEPT !.exit = FatalUnquote]
                   ELSE write(writeContext(Comments(m, dom.s, call),
                                           currentDomain, call.Args[3].Value),
                              dom.s, call.Args[2].Value),
               Unquote(call.Args[1].Value))
    ELSE m

parseGetDC(m, call) ==
    IF Len(call.Args) > 2 /\ IsString(call.Args[1]) /\ IsString(call.Args[2])
       /\ IsString(call.Args[3])
    THEN Apply(LAMBDA dom :
                   IF ~dom.ok THEN [m EXCEPT !.exit = FatalUnquote]
                   ELSE write(writeContext(Comments(m, dom.s, call), dom.s,
                                           call.Args[3].Value),
                              dom.s, call.Args[2].Value),
               Unquote(call.Args[1].Value))
    ELSE m

parseGetNDC(m, call) ==
    IF Len(call.Args) > 4 /\ IsString(call.Args[1]) /\ IsString(call.Args[2])
       /\ IsString(call.Args[3]) /\ IsString(call.Args[5])
    THEN Apply(LAMBDA dom :
                   IF ~dom.ok THEN [m EXCEPT !.exit = FatalUnquote]
                   ELSE writePlural(writeContext(Comments(m, dom.s, call),
                                                 dom.s, call.Args[5].Value),
                                    dom.s, call.Args[2].Value,
                                    call.Args[3].Value),
               Unquote(call.Args[1].Value))
    ELSE m

inspectCallExpr(m, n) ==
    IF n.Fun.node # "SelectorExpr" THEN m
    ELSE CASE n.Fun.Sel = "Get" -> parseGet(m, n)
           [] n.Fun.Sel = "GetN" -> parseGetN(m, n)
           [] n.Fun.Sel = "GetD" -> parseGetD(m, n)
           [] n.Fun.Sel = "GetND" -> parseGetND(m, n)
           [] n.Fun.Sel = "GetC" -> parseGetC(m, n)
           [] n.Fun.Sel = "GetNC" -> parseGetNC(m, n)
           [] n.Fun.Sel = "GetDC" -> parseGetDC(m, n)
           [] n.Fun.Sel = "GetNDC" -> parseGetNDC(m, n)
           [] OTHER -> m

(***************************************************************************)
(* The call expressions a source file is built from.                       *)
(***************************************************************************)
Names == {"Get", "GetN", "GetD", "GetND", "GetC", "GetNC", "GetDC", "GetNDC"}

TokMsgid == BasicLit("STRING", <<DQ, "m", DQ>>)
TokPlural == BasicLit("STRING", <<DQ, "p", DQ>>)
TokContext == BasicLit("STRING", <<DQ, "c", DQ>>)
TokCount == BasicLit("INT", <<"2">>)

\* Domain literals: "a"; "./a", whose catalog path cleans to that of "a";
\* "x/a", whose catalog lies in a directory that does not exist.
DomainTokens ==
    { BasicLit("STRING", <<DQ, "a", DQ>>),
      BasicLit("STRING", <<DQ, ".", "/", "a", DQ>>),
      BasicLit("STRING", <<DQ, "x", "/", "a", DQ>>) }

\* The arguments of a call as the library's signature has them, all literal.
FullArgs(name, d) ==
    CASE name = "Get" -> <<TokMsgid>>
      [] name = "GetN" -> <<TokMsgid, TokPlural, TokCount>>
      [] name = "GetD" -> <<d, TokMsgid>>
      [] name = "GetND" -> <<d, TokMsgid, TokPlural, TokCount>>
      [] name = "GetC" -> <<TokMsgid, TokContext>>
      [] name = "GetNC" -> <<TokMsgid, TokPlural, TokCount, TokContext>>
      [] name = "GetDC" -> <<d, TokMsgid, TokContext>>
      [] name = "GetNDC" -> <<d, TokMsgid, TokPlural, TokCount, TokContext>>

DomainA == BasicLit("STRING", <<DQ, "a", DQ>>)

\* Well-formed calls on an identifier: one per variant, and GetD with each
\* domain literal.
WellFormedCalls ==
    { CallExpr(Selector("Ident", name), FullArgs(name, DomainA)) :
        name \in Names }
    \cup { CallExpr(Selector("Ident", "GetD"), FullArgs("GetD", d)) :
             d \in DomainTokens }

\* The positions of a variant's full argument list that the library takes
\* a string at, and the one it takes the count at (0: none).
StringSlots(name) ==
    { i \in 1..Len(FullArgs(name, DomainA)) :
        FullArgs(name, DomainA)[i].Kind = "STRING" }
CountSlot(name) ==
    CASE name \in {"GetN", "GetNC"} -> 3
      [] name \in {"GetND", "GetNDC"} -> 4
      [] OTHER -> 0

\* A string argument replaced by a variable; the first one of Get and of
\* GetD also by an integer literal.
StringReplaced ==
    UNION { { CallExpr(Selector("Ident", name),
                       [FullArgs(name, DomainA) EXCEPT ![i] = Ident("Var")]) :
                i \in StringSlots(name) } : name \in Names }
    \cup { CallExpr(Selector("Ident", name),
                    [FullArgs(name, DomainA) EXCEPT ![1] = TokCount]) :
             name \in {"Get", "GetD"} }

\* What may stand where the count is expected.
CountArgs ==
    { Ident("Var"), Ident("Con"), Ident("Fun"), Ident("nil"), OtherExpr,
      BasicLit("FLOAT", <<"1", ".", "5">>), TokMsgid }

CountReplaced ==
    { CallExpr(Selector("Ident", name),
               [FullArgs(name, DomainA) EXCEPT ![CountSlot(name)] = x]) :
        name \in {"GetN", "GetNC", "GetNDC"}, x \in CountArgs }
    \ { CallExpr(Selector("Ident", name),
                 [FullArgs(name, DomainA) EXCEPT ![CountSlot(name)] = x]) :
          name \in {"GetNC", "GetNDC"},
          x \in {Ident("Con"), Ident("Fun"), BasicLit("FLOAT", <<"1", ".", "5">>)} }

\* The last argument left out.
ArgsLeftOut ==
    { CallExpr(Selector("Ident", name),
               SubSeq(FullArgs(name, DomainA), 1,
                      Len(FullArgs(name, DomainA)) - 1)) : name \in Names }
    \cup { CallExpr(Selector("Ident", "GetND"), <<DomainA, TokMsgid>>) }

\* Calls whose receiver is not an identifier: s.loc.Get(...), loc().Get(...).
OtherReceivers ==
    { CallExpr(Selector("SelectorExpr", name), FullArgs(name, DomainA)) :
        name \in Names }
    \cup { CallExpr(Selector("CallExpr", "Get"), <<TokMsgid>>),
           CallExpr(Selector("SelectorExpr", "GetD"),
                    <<DomainA, Ident("Var")>>) }

\* Calls that are no method call, or a method of another name.
OtherCalls ==
    { CallExpr(PlainCallee("Get"), <<TokMsgid>>),
      CallExpr(Selector("CallExpr", "Sprintf"), <<TokMsgid, Ident("nil")>>) }

CallSites ==
    WellFormedCalls \cup StringReplaced \cup CountReplaced \cup ArgsLeftOut
    \cup OtherReceivers \cup OtherCalls

At(call, file, line) ==
    [call EXCEPT !.Pos = [Filename |-> file, Line |-> line]]

(***************************************************************************)
(* The state.                                                              *)
(***************************************************************************)
VARIABLES
    fs,           \* the files of the output directory: path -> content
    domainFiles,  \* domain -> the stream opened for it: [path, off]
    exit,         \* Running, or how the process ended
    currentFile,  \* the file being traversed
    call,         \* the call expression inspectFile was last called with
    nvisited,     \* call expressions visited so far
    trace,        \* per visited call expression, the writer functions
                  \* its visit reached, in order
    dir,          \* the source directory: file name -> its call expressions
    path,         \* the first command-line argument
    outputs       \* the output directory as each finished run left it

vars ==
    <<fs, domainFiles, exit, currentFile, call, nvisited, trace, dir,
      path, outputs>>

Empty == [x \in {} |-> <<>>]

NoCall == CallExpr([node |-> "", X |-> "", Name |-> "", Sel |-> ""], <<>>)

\* The process state the functions above work on.
Machine(f, d, e) == [fs |-> f, domainFiles |-> d, exit |-> e, log |-> <<>>]
Started == Machine(Empty, Empty, Running)

(***************************************************************************)
(* Spec: the traversal of one source file, main.go, call by call.          *)
(***************************************************************************)
Init ==
    /\ fs = Empty
    /\ domainFiles = Empty
    /\ exit = Running
    /\ currentFile = "main.go"
    /\ call = NoCall
    /\ nvisited = 0
    /\ trace = <<>>
    /\ dir = Empty
    /\ path = "main.go"
    /\ outputs = <<>>

\* ast.Inspect calls inspectFile with the next call expression of the file;
\* the calls of the file stand on successive lines.
inspectFile ==
    /\ exit = Running
    /\ nvisited < MaxCalls
    /\ \E c \in CallSites :
         \E m \in {inspectCallExpr(Machine(fs, domainFiles, exit),
                                    At(c, currentFile, nvisited + 1))} :
             /\ call' = At(c, currentFile, nvisited + 1)
             /\ fs' = m.fs
             /\ domainFiles' = m.domainFiles
             /\ exit' = m.exit
             /\ trace' = Append(trace, m.log)
    /\ nvisited' = nvisited + 1
    /\ UNCHANGED <<currentFile, dir, path, outputs>>

Next == inspectFile

Spec == Init /\ [][Next]_vars

(***************************************************************************)
(* SpecDir: whole runs of the tool, one after another on the same source   *)
(* and each with a clean output directory.                                 *)
(***************************************************************************)
\* The runs made, and the call expressions a file may hold.
MaxRuns == 2
MaxFileCalls == 2

RECURSIVE inspectFrom(_, _, _)
inspectFrom(m0, nodes, i) ==
    Apply(LAMBDA m :
              IF i > Len(nodes) \/ m.exit # Running THEN m
              ELSE inspectFrom(inspectCallExpr(m, nodes[i]), nodes, i + 1),
          m0)

\* ast.Inspect(node, inspectFile): the call expressions of the file, in the
\* order of the traversal, until the process ends.
inspectNodes(m, nodes) == inspectFrom(m, nodes, 1)

\* parseFile(fileName), the file's call expressions being those of dir.
parseFile(m, fileName) == inspectNodes(m, dir[fileName])

RECURSIVE parseFiles(_, _, _)
parseFiles(m0, fileNames, i) ==
    Apply(LAMBDA m :
              IF i > Len(fileNames) THEN m
              ELSE parseFiles(parseFile(m, fileNames[i]), fileNames, i + 1),
          m0)

\* The orders in which a range over a map with these keys may yield them.
RangeOrders(keys) ==
    { o \in [1..Cardinality(keys) -> keys] :
        \A i, j \in 1..Cardinality(keys) : i # j => o[i] # o[j] }

\* parseDir(dirName): the files of the package, in the order the range
\* over pkg.Files yields them.
parseDir(m, order) == parseFiles(m, order, 1)

FileNames == {"pkg/a.go", "pkg/b.go"}

\* What the files of the directory are made of.
DirCalls ==
    { CallExpr(Selector("Ident", "Get"), <<TokMsgid>>),
      CallExpr(Selector("Ident", "GetNC"), FullArgs("GetNC", DomainA)),
      CallExpr(Selector("Ident", "GetD"), FullArgs("GetD", DomainA)),
      CallExpr(Selector("Ident", "GetD"), <<DomainA, Ident("Var")>>) }

\* The files a source file of up to MaxFileCalls call expressions may be,
\* the calls on successive lines.
SourceFiles(fileName) ==
    UNION { { [i \in 1..n |-> At(cs[i], fileName, i)] :
                cs \in [1..n -> DirCalls] } : n \in 1..MaxFileCalls }

InitDir ==
    /\ fs = Empty
    /\ domainFiles = Empty
    /\ exit = Running
    /\ currentFile = ""
    /\ call = NoCall
    /\ nvisited = 0
    /\ trace = <<>>
    /\ \E a \in SourceFiles("pkg/a.go"), b \in SourceFiles("pkg/b.go") :
         dir = [f \in FileNames |-> IF f = "pkg/a.go" THEN a ELSE b]
    /\ path \in {"pkg"} \cup FileNames
    /\ outputs = <<>>

\* main with a directory as its argument: a new process, a clean output
\* directory.
mainDir ==
    /\ Len(outputs) < MaxRuns
    /\ path \notin FileNames
    /\ \E order \in RangeOrders(DOMAIN dir) :
         \E m \in {parseDir(Started, order)} :
         /\ fs' = m.fs
         /\ domainFiles' = m.domainFiles
         /\ exit' = m.exit
         /\ currentFile' = order[Len(order)]
         /\ outputs' = Append(outputs, [fs |-> m.fs, exit |-> m.exit])
    /\ UNCHANGED <<call, nvisited, trace, dir, path>>

\* main with a file as its argument.
mainFile ==
    /\ Len(outputs) < MaxRuns
    /\ path \in FileNames
    /\ \E m \in {parseFile(Started, path)} :
         /\ fs' = m.fs
         /\ domainFiles' = m.domainFiles
         /\ exit' = m.exit
         /\ currentFile' = path
         /\ outputs' = Append(outputs, [fs |-> m.fs, exit |-> m.exit])
    /\ UNCHANGED <<call, nvisited, trace, dir, path>>

NextDir == mainDir \/ mainFile

SpecDir == InitDir /\ [][NextDir]_vars

(***************************************************************************)
(* What the claims speak of.                                               *)
(***************************************************************************)
\* The signature table; argument positions count from 1 here.
MinArgCount(name) ==
    CASE name = "Get" -> 1
      [] name \in {"GetD", "GetC"} -> 2
      [] name \in {"GetN", "GetND", "GetDC"} -> 3
      [] name = "GetNC" -> 4
      [] name = "GetNDC" -> 5
StringArgPositions(name) ==
    CASE name = "Get" -> {1}
      [] name \in {"GetN", "GetD", "GetC"} -> {1, 2}
      [] name \in {"GetND", "GetDC"} -> {1, 2, 3}
      [] name = "GetNC" -> {1, 2, 4}
      [] name = "GetNDC" -> {1, 2, 3, 5}
DomainVariants == {"GetD", "GetND", "GetDC", "GetNDC"}
PluralVariants == {"GetN", "GetND", "GetNC", "GetNDC"}
ContextVariants == {"GetC", "GetNC", "GetDC", "GetNDC"}
MsgidPosition(name) == IF name \in DomainVariants THEN 2 ELSE 1
ContextArgPosition(name) ==
    CASE name = "GetC" -> 2
      [] name = "GetNC" -> 4
      [] name = "GetDC" -> 3
      [] name = "GetNDC" -> 5
\* The count argument of GetN, GetNC and GetNDC.
CountArgPosition(name) == IF name = "GetNDC" THEN 4 ELSE 3

IsVariantCall(c) == c.Fun.node = "SelectorExpr" /\ c.Fun.Sel \in Names

\* The call has all the arguments its variant requires, each a literal.
AllLiteral(c) ==
    /\ IsVariantCall(c)
    /\ Len(c.Args) >= MinArgCount(c.Fun.Sel)
    /\ \A i \in StringArgPositions(c.Fun.Sel) : IsString(c.Args[i])
    /\ c.Fun.Sel \in {"GetN", "GetNC", "GetNDC"} =>
         /\ c.Args[CountArgPosition(c.Fun.Sel)].node = "BasicLit"
         /\ c.Args[CountArgPosition(c.Fun.Sel)].Kind = "INT"

\* The call is one the matcher is to pass over.
NotExtractable(c) ==
    \/ c.Fun.node # "SelectorExpr"
    \/ c.Fun.Sel \notin Names
    \/ Len(c.Args) < MinArgCount(c.Fun.Sel)
    \/ \E i \in StringArgPositions(c.Fun.Sel) : ~IsString(c.Args[i])

\* The domain a call names: its unquoted first argument, or the current one.
DomainNamed(c) ==
    IF c.Fun.Sel \in DomainVariants THEN Unquote(c.Args[1].Value).s
    ELSE currentDomain

CatalogPath(domain) == Str(Join(outputDir, domain \o DotPo))

\* The writer functions the last visit reached.
LastLog == IF trace = <<>> THEN <<>> ELSE trace[Len(trace)]

\* The last visit produced a record and the process runs on.
Extracted == exit = Running /\ LastLog # <<>>

Entries(lg, fns) == SelectSeq(lg, LAMBDA e : e.fn \in fns)

\* The record a visit's log amounts to.
RecordOf(lg) ==
    LET cm == Entries(lg, {"writeComments"})
        cx == Entries(lg, {"writeContext"})
        ms == Entries(lg, {"write", "writePlural"})
    IN  [domain |-> cm[1].dom,
         location |-> cm[1].a,
         callLabel |-> cm[1].b,
         hasContext |-> cx # <<>>,
         context |-> IF cx # <<>> THEN cx[1].a ELSE "",
         isPlural |-> ms[1].fn = "writePlural",
         msgid |-> ms[1].a,
         msgidPlural |-> ms[1].b]

\* The log is that of exactly one record, all of it for one domain.
OneRecord(lg) ==
    /\ Len(Entries(lg, {"writeComments"})) = 1
    /\ Len(Entries(lg, {"write", "writePlural"})) = 1
    /\ Len(Entries(lg, {"writeContext"})) <= 1
    /\ \A i \in 1..Len(lg) : lg[i].dom = lg[1].dom

\* The entry block of a record, line by line.
BlockOf(r) ==
    <<NL, Piece("#: ", r.location), NL, Piece("#. ", r.callLabel)>>
    \o (IF r.hasContext THEN <<NL, Piece("msgctxt ", r.context)>> ELSE <<>>)
    \o <<NL, Piece("msgid ", r.msgid)>>
    \o (IF r.isPlural
        THEN <<NL, Piece("msgid_plural ", r.msgidPlural),
               NL, Piece("msgstr[0] \"\"", ""),
               NL, Piece("msgstr[1] \"\"", "")>>
        ELSE <<NL, Piece("msgstr \"\"", "")>>)
    \o <<NL>>

\* The record the signature table reads off a call.
RecordFor(c) ==
    LET name == c.Fun.Sel IN
    [domain |-> Str(DomainNamed(c)),
     location |-> PosText(c),
     callLabel |-> c.Fun.Name \o "." \o name,
     hasContext |-> name \in ContextVariants,
     context |-> IF name \in ContextVariants
                 THEN Str(c.Args[ContextArgPosition(name)].Value) ELSE "",
     isPlural |-> name \in PluralVariants,
     msgid |-> Str(c.Args[MsgidPosition(name)].Value),
     msgidPlural |-> IF name \in PluralVariants
                     THEN Str(c.Args[MsgidPosition(name) + 1].Value) ELSE ""]

Count(seq, x) == Cardinality({i \in 1..Len(seq) : seq[i] = x})

(***************************************************************************)
(* C1.                                                                     *)
(***************************************************************************)
\* C1: every catalog file holds the header block exactly once, at its top,
\* whatever calls were processed and however often its domain was
\* resolved.
C1_HeaderOnceAtTop ==
    /\ \A d \in DOMAIN domainFiles : domainFiles[d].path \in DOMAIN fs
    /\ \A p \in DOMAIN fs :
         /\ Len(fs[p]) >= Len(Header)
         /\ SubSeq(fs[p], 1, Len(Header)) = Header
         /\ Count(fs[p], Header[1]) = 1

\* A catalog that two visits wrote blocks to, beside another catalog.
C1_Witness ==
    /\ Cardinality(DOMAIN fs) >= 2
    /\ \E d \in DOMAIN domainFiles :
         /\ Len(SelectSeq(trace, LAMBDA lg : lg # <<>> /\ lg[1].dom = d)) >= 2
         /\ Len(fs[domainFiles[d].path]) > Len(Header) + 9

(***************************************************************************)
(* C2.                                                                     *)
(***************************************************************************)
\* C2: a call of one of the 8 variants whose required arguments are all
\* literals yields exactly one record, with the fields the signature table
\* gives it (unless its catalog cannot be opened).
C2_RecordPerSignature ==
    (nvisited >= 1 /\ AllLiteral(call)) =>
        \/ exit = FatalOpen
        \/ /\ exit = Running
           /\ OneRecord(LastLog)
           /\ RecordOf(LastLog) = RecordFor(call)

(***************************************************************************)
(* C3.                                                                     *)
(***************************************************************************)
\* C3: visiting a call that is no selector call, has another method name,
\* too few arguments or a non-literal where a string is required leaves
\* every file and every stream as it was, produces no record and ends
\* nothing.
C3_SkippedCallNoEffect ==
    [][NotExtractable(call') =>
          /\ fs' = fs
          /\ domainFiles' = domainFiles
          /\ exit' = Running
          /\ trace' = Append(trace, <<>>)]_vars

\* A call passed over after catalogs were written.
C3_Witness ==
    /\ nvisited >= 2
    /\ NotExtractable(call)
    /\ IsVariantCall(call)
    /\ fs # Empty
    /\ exit = Running

(***************************************************************************)
(* C4.                                                                     *)
(***************************************************************************)
\* The count is an integer literal or an identifier resolved to a variable
\* or a constant.
CountAccepted(x) ==
    \/ x.node = "BasicLit" /\ x.Kind = "INT"
    \/ x.node = "Ident" /\ x.Obj \in {"Var", "Con"}

\* C4: a GetN, GetNC or GetNDC call whose count argument is neither an
\* integer literal nor an identifier resolved to a variable or constant
\* produces no record.
C4_CountArgumentChecked ==
    ( /\ nvisited >= 1
      /\ IsVariantCall(call)
      /\ call.Fun.Sel \in {"GetN", "GetNC", "GetNDC"}
      /\ Len(call.Args) >= CountArgPosition(call.Fun.Sel)
      /\ ~CountAccepted(call.Args[CountArgPosition(call.Fun.Sel)]) )
    => LastLog = <<>>

ReceiverNames == {"gotext"}

\* The lines of a variant's block: the text each line starts with, each
\* after a line feed; the first line feed ends the line before the block.
Layout(name) ==
    <<LF, "#: ", LF, "#. ">>
    \o (IF name \in ContextVariants THEN <<LF, "msgctxt ">> ELSE <<>>)
    \o <<LF, "msgid ">>
    \o (IF name \in PluralVariants
        THEN <<LF, "msgid_plural ", LF, "msgstr[0] \"\"",
               LF, "msgstr[1] \"\"">>
        ELSE <<LF, "msgstr \"\"">>)
    \o <<LF>>

\* The line before position i of c is blank: empty, or the lone tab the
\* header ends with.
BlankLineBefore(c, i) ==
    /\ i > 2
    /\ \/ c[i - 1] = NL
       \/ c[i - 1] = TAB /\ c[i - 2] = NL

\* A block of the variant stands at position i of c.
BlockAt(c, i, name) ==
    LET lay == Layout(name) IN
    /\ i + Len(lay) - 1 <= Len(c)
    /\ \A j \in 1..Len(lay) : c[i + j - 1].t = lay[j]
    /\ \E r \in ReceiverNames : c[i + 3].v = r \o "." \o name
    /\ BlankLineBefore(c, i + 1)

RECURSIVE BlocksFrom(_, _)
\* From position i on, c is blocks and nothing else.
BlocksFrom(c, i) ==
    \/ i > Len(c)
    \/ \E name \in Names :
         BlockAt(c, i, name) /\ BlocksFrom(c, i + Len(Layout(name)))

\* C6: every catalog is the header followed by entry blocks, each with its
\* lines in the order blank line, #:, #., msgctxt for the context variants
\* only, msgid, then msgid_plural, msgstr[0], msgstr[1] for the plural
\* variants and msgstr for the others; blocks follow the header and one
\* another after a blank line.
C6_BlockLayout ==
    \A p \in DOMAIN fs :
        /\ Len(fs[p]) >= Len(Header)
        /\ SubSeq(fs[p], 1, Len(Header)) = Header
        /\ BlocksFrom(fs[p], Len(Header) + 1)

(***************************************************************************)
(* C8.                                                                     *)
(***************************************************************************)
\* C8: every domain name of the registry has the stream of its own file
\* <outputDir>/<domain>.po, and no two names share a backing file.
C8_NoSharedBackingFile ==
    /\ \A d \in DOMAIN domainFiles :
          \E dom \in {Unquote(t.Value).s : t \in DomainTokens} \cup {currentDomain} :
              d = Str(dom) /\ domainFiles[d].path = CatalogPath(dom)
    /\ \A d1, d2 \in DOMAIN domainFiles :
          d1 # d2 => domainFiles[d1].path # domainFiles[d2].path

(***************************************************************************)
(* C9.                                                                     *)
(***************************************************************************)
RECURSIVE BlocksOfDomain(_, _, _)
\* The blocks of the visits from the i-th on that resolved to domain d, in
\* visiting order.
BlocksOfDomain(tr, d, i) ==
    IF i > Len(tr) THEN <<>>
    ELSE (IF OneRecord(tr[i]) /\ tr[i][1].dom = d
          THEN BlockOf(RecordOf(tr[i])) ELSE <<>>)
         \o BlocksOfDomain(tr, d, i + 1)

\* C9: the catalog of every domain holds, after the header, one block per
\* call site that resolved to the domain, in the order of the visits, none
\* merged, missing or interleaved with another.
C9_BlocksInDiscoveryOrder ==
    \A d \in DOMAIN domainFiles :
        fs[domainFiles[d].path] = Header \o BlocksOfDomain(trace, d, 1)

(***************************************************************************)
(* C10.                                                                    *)
(***************************************************************************)
\* C10: the traversal ends early only by the fatal error of a domain
\* literal that does not unquote or of a catalog that cannot be opened,
\* and in the first case before the call reached a writer.
C10_OnlyFatalErrorsAbort ==
    /\ exit \in {Running, FatalUnquote, FatalOpen}
    /\ exit = FatalUnquote => LastLog = <<>>

(***************************************************************************)
(* C7.                                                                     *)
(***************************************************************************)
\* C7: two runs on the same source path, each into a clean output
\* directory, leave the same catalog files with the same content.
C7_RunsAgree ==
    Len(outputs) >= 2 => outputs[1] = outputs[2]

====
